---------------------------- MODULE Spec2Model ----------------------------
(***************************************************************************)
(* A model of src/app.py: the export-text parser (parse_date_link_txt),    *)
(* the date filter (apply_date), the sessionizer (add_sessions and the     *)
(* per-session rollup session_stats), the watch-to-like conversion of      *)
(* render_wrapped, the clip-card view of render_cards_client_oembed and    *)
(* the thumbnail worker pool (runLimited) of the page it emits.            *)
(*                                                                         *)
(* Time is counted in whole seconds since 00:00:00 UTC of day 0.  A data   *)
(* frame is a sequence of rows (records); the field idx is the frame's     *)
(* index label, which pandas keeps through filtering and sorting.          *)
(***************************************************************************)
EXTENDS Integers, Sequences, FiniteSets, TLC

VARIABLES
    pc,             \* position of the computation being modelled
    text,           \* parse_date_link_txt: the input text, a sequence of lines
    dates, links,   \* parse_date_link_txt: the two findall results
    rows,           \* parse_date_link_txt: the list of candidate rows
    df,             \* parse_date_link_txt / apply_date: the frame worked on
    start_date, end_date,   \* apply_date: the two bounds (None when absent)
    filtered,       \* apply_date: the frame returned
    watch_f, likes_f,       \* the date-filtered watch and like frames
    gap_minutes,    \* add_sessions: the gap threshold, minutes
    w_s,            \* add_sessions: the frame returned
    session_stats,  \* the per-session rollup of w_s
    outcome,        \* "ok", or the name of the exception raised
    conversion,     \* render_wrapped: the conversion rate, <<num, den>>
    recent,         \* render_cards_client_oembed: the frame of cards
    card_n,         \* render_cards_client_oembed: n, the most cards shown
    tasks,          \* runLimited: per task, its state
    started,        \* runLimited: per task, how many times it was started
    i,              \* runLimited: the shared index of the next task
    workers         \* runLimited: per worker, its position and its task

vars == <<pc, text, dates, links, rows, df, start_date, end_date, filtered,
          watch_f, likes_f, gap_minutes, w_s, session_stats, outcome,
          conversion, recent, card_n, tasks, started, i, workers>>

parseVars  == <<text, dates, links, rows>>
dateVars   == <<start_date, end_date, filtered>>
frameVars  == <<watch_f, likes_f>>
sessVars   == <<gap_minutes, w_s, session_stats>>
cardVars   == <<recent, card_n>>
poolVars   == <<tasks, started, i, workers>>

-----------------------------------------------------------------------------
(* Bounds of the model.                                                    *)

\* longest input text, in lines
MaxLines == 5
\* most rows of a frame handed to apply_date or add_sessions
MaxEvents == 3
\* the frames of the date filter hold events of the days 0..MaxDay
MaxDay == 2
\* most rows of a frame handed to render_wrapped or the card view
MaxIdRows == 3
\* most cards of the page (the code shows at most n = 12)
MaxCards == 5

-----------------------------------------------------------------------------
(* Values.                                                                 *)

\* pandas' NaT, the missing timestamp or time difference
NaT == -2147483647
\* Python's None: extract_video_id found no id, or a date input is unset
None == -1

\* add_sessions' default gap_minutes, the one the page passes
DefaultGap == 30
\* render_cards_client_oembed's n, the most cards shown
DefaultCards == 12

SecondsPerDay == 86400
SecondsPerHour == 3600
SecondsPerMinute == 60

Min(a, b) == IF a <= b THEN a ELSE b

RECURSIVE SelectSeqIdx(_, _, _)
\* the subsequence of s at the positions k >= from for which keep[k] holds
SelectSeqIdx(s, keep, from) ==
    IF from > Len(s) THEN <<>>
    ELSE (IF keep[from] THEN <<s[from]>> ELSE <<>>) \o SelectSeqIdx(s, keep, from + 1)

\* the sequences over S of length 0..n
SeqUpTo(S, n) == UNION {[1..k -> S] : k \in 0..n}

-----------------------------------------------------------------------------
(* URLs.  A URL is its scheme, the account it names, and its last path     *)
(* segment: kind "video" followed by the digits num, or something else.    *)

Url(scheme, user, kind, num) ==
    [scheme |-> scheme, user |-> user, kind |-> kind, num |-> num]

\* the URLs LINK_RE accepts
HttpUrls ==
    { Url("https", "u", "video", 111), Url("https", "u", "video", 222),
      Url("http", "v", "video", 111), Url("https", "u", "photo", 5) }

\* a locator LINK_RE does not accept
FtpUrl == Url("ftp", "u", "video", 333)

extract_video_id(url) == IF url.kind = "video" THEN url.num ELSE None

-----------------------------------------------------------------------------
(* The input text.  A line holds a Date: field, a Link: field or neither.  *)
(* A date text is a day and an hour of the day, as written; utc says       *)
(* whether the literal UTC follows it on the line.                         *)

DateText(day, hour) == [day |-> day, hour |-> hour]

\* 12:00:00 of day 0 and of day 1, and 24:00:00, which is no time of day
DateTexts == {DateText(0, 12), DateText(1, 12), DateText(0, 24)}

DateLine(body, utc) == [marker |-> "Date:", body |-> body, utc |-> utc]
LinkLine(url) == [marker |-> "Link:", url |-> url]
NoiseLine == [marker |-> ""]

\* the URLs the lines of a text carry
LineUrls ==
    { Url("https", "u", "video", 111), Url("https", "u", "video", 222),
      Url("https", "u", "photo", 5), FtpUrl }

Lines ==
    {DateLine(b, TRUE) : b \in DateTexts} \cup {DateLine(DateText(0, 12), FALSE)}
    \cup {LinkLine(u) : u \in LineUrls}
    \cup {NoiseLine}

\* DATE_RE matches a line: Date:, a date text, UTC
DATE_RE(line) == line.marker = "Date:" /\ line.utc

\* LINK_RE matches a line: Link:, then http:// or https:// and the rest
LINK_RE(line) == line.marker = "Link:" /\ line.url.scheme \in {"http", "https"}

RECURSIVE findall_valid_dates(_)
\* findall_dates leaving out the date texts that name no time of day
findall_valid_dates(t) ==
    IF t = <<>> THEN <<>>
    ELSE (IF DATE_RE(Head(t)) /\ Head(t).body.hour \in 0..23
          THEN <<Head(t).body>> ELSE <<>>) \o findall_valid_dates(Tail(t))

RECURSIVE findall_dates(_)
\* DATE_RE.findall: the date texts of the matching lines, in order
findall_dates(t) ==
    IF t = <<>> THEN <<>>
    ELSE (IF DATE_RE(Head(t)) THEN <<Head(t).body>> ELSE <<>>) \o findall_dates(Tail(t))

RECURSIVE findall_links(_)
\* LINK_RE.findall: the URLs of the matching lines, in order
findall_links(t) ==
    IF t = <<>> THEN <<>>
    ELSE (IF LINK_RE(Head(t)) THEN <<Head(t).url>> ELSE <<>>) \o findall_links(Tail(t))

\* pd.to_datetime(errors="coerce", utc=True) of one date text: the instant,
\* or NaT when the text names no time of day
to_datetime(body) ==
    IF body.hour \in 0..23
    THEN body.day * SecondsPerDay + body.hour * SecondsPerHour
    ELSE NaT

\* CandidateRow with the links taken from the last one back
CandidateRowFromEnd(ds, ls, k) ==
    [idx |-> k - 1, ts_utc |-> ds[k], url |-> ls[Len(ls) - k + 1],
     video_id |-> extract_video_id(ls[Len(ls) - k + 1])]

\* the row built for candidate k (the frame's index label is k - 1)
CandidateRow(ds, ls, k) ==
    [idx |-> k - 1, ts_utc |-> ds[k], url |-> ls[k], video_id |-> extract_video_id(ls[k])]

\* the number of candidate rows
PairCount(ds, ls) == Min(Len(ds), Len(ls))

\* df["ts_utc"] = pd.to_datetime(df["ts_utc"], ...)
CoerceFrame(f) == [k \in 1..Len(f) |-> [f[k] EXCEPT !.ts_utc = to_datetime(f[k].ts_utc)]]

\* df.dropna(subset=["ts_utc"])
dropna_ts(f) == SelectSeqIdx(f, [k \in 1..Len(f) |-> f[k].ts_utc # NaT], 1)


-----------------------------------------------------------------------------
(* Values the variables hold while the computation they belong to is not   *)
(* the one running.                                                        *)

IdleParse == text = <<>> /\ dates = <<>> /\ links = <<>> /\ rows = <<>>
IdleDate  == start_date = None /\ end_date = None /\ filtered = <<>>
IdleFrames == watch_f = <<>> /\ likes_f = <<>>
IdleSess  == gap_minutes = DefaultGap /\ w_s = <<>> /\ session_stats = <<>>
IdleWrapped == conversion = <<0, 1>>
IdleCards == recent = <<>> /\ card_n = DefaultCards
IdlePool  == tasks = <<>> /\ started = <<>> /\ i = 0 /\ workers = <<>>

-----------------------------------------------------------------------------
(* parse_date_link_txt(text), statement by statement.                      *)

InitParse ==
    /\ pc = "parse_findall"
    /\ text \in SeqUpTo(Lines, MaxLines)
    /\ dates = <<>> /\ links = <<>> /\ rows = <<>>
    /\ df = <<>>
    /\ outcome = "ok"
    /\ IdleDate /\ IdleFrames /\ IdleSess /\ IdleWrapped /\ IdleCards /\ IdlePool

\* dates = DATE_RE.findall(text); links = LINK_RE.findall(text)
ParseFindall ==
    /\ pc = "parse_findall"
    /\ dates' = findall_dates(text)
    /\ links' = findall_links(text)
    /\ pc' = "parse_rows"
    /\ UNCHANGED <<text, rows, df, outcome, dateVars, frameVars, sessVars,
                   conversion, cardVars, poolVars>>

\* one turn of: for i in range(n): rows.append({...})
ParseAppendRow ==
    /\ pc = "parse_rows"
    /\ Len(rows) < PairCount(dates, links)
    /\ rows' = Append(rows, CandidateRow(dates, links, Len(rows) + 1))
    /\ UNCHANGED <<pc, text, dates, links, df, outcome, dateVars, frameVars,
                   sessVars, conversion, cardVars, poolVars>>

\* df = pd.DataFrame(rows); if df.empty: return df
ParseFrame ==
    /\ pc = "parse_rows"
    /\ Len(rows) = PairCount(dates, links)
    /\ df' = rows
    /\ pc' = IF rows = <<>> THEN "parse_done" ELSE "parse_coerce"
    /\ UNCHANGED <<parseVars, outcome, dateVars, frameVars, sessVars,
                   conversion, cardVars, poolVars>>

\* df["ts_utc"] = pd.to_datetime(df["ts_utc"], errors="coerce", utc=True)
ParseToDatetime ==
    /\ pc = "parse_coerce"
    /\ df' = CoerceFrame(df)
    /\ pc' = "parse_dropna"
    /\ UNCHANGED <<parseVars, outcome, dateVars, frameVars, sessVars,
                   conversion, cardVars, poolVars>>

\* return df.dropna(subset=["ts_utc"])
ParseDropna ==
    /\ pc = "parse_dropna"
    /\ df' = dropna_ts(df)
    /\ pc' = "parse_done"
    /\ UNCHANGED <<parseVars, outcome, dateVars, frameVars, sessVars,
                   conversion, cardVars, poolVars>>

NextParse ==
    \/ ParseFindall
    \/ ParseAppendRow
    \/ ParseFrame
    \/ ParseToDatetime
    \/ ParseDropna

SpecParse == InitParse /\ [][NextParse]_vars

-----------------------------------------------------------------------------
(* What the text holds, read off the text itself.                          *)

\* the positions of the lines of t that carry a Date: match, a Link: match
DatePositions(t) == {p \in 1..Len(t) : DATE_RE(t[p])}
LinkPositions(t) == {p \in 1..Len(t) : LINK_RE(t[p])}

\* the k-th smallest member of the set P of positions
Nth(P, k) == CHOOSE p \in P : Cardinality({q \in P : q <= p}) = k

\* the candidates are built once the loop has ended
RowsBuilt == pc \in {"parse_coerce", "parse_dropna", "parse_done"}

\* C1: with k Date matches and m Link matches in the text, exactly min(k, m)
\* candidate rows are built, and the i-th candidate holds the i-th date text
\* found and the i-th URL found; the matches past the shorter count are in
\* no candidate.
C1_Pairing ==
    RowsBuilt =>
        LET k == Cardinality(DatePositions(text))
            m == Cardinality(LinkPositions(text))
        IN  /\ Len(rows) = (IF k <= m THEN k ELSE m)
            /\ \A c \in 1..Len(rows) :
                  /\ rows[c].ts_utc = text[Nth(DatePositions(text), c)].body
                  /\ rows[c].url = text[Nth(LinkPositions(text), c)].url
                  /\ rows[c].idx = c - 1

\* C1's case: three Date matches and two Link matches, two candidates built
\* from different date texts and URLs, the third date text in no candidate.
C1_Witness ==
    /\ RowsBuilt
    /\ Cardinality(DatePositions(text)) = 3
    /\ Cardinality(LinkPositions(text)) = 2
    /\ Len(rows) = 2
    /\ rows[1].url # rows[2].url
    /\ rows[1].ts_utc # rows[2].ts_utc
    /\ \A c \in 1..2 : rows[c].ts_utc # dates[3]

\* C6: a candidate whose date text fails to parse gives no event, and every
\* candidate whose date text parses is emitted under its own index with the
\* URL found at that index, whatever came before it.
C6_MalformedDropped ==
    pc = "parse_done" =>
        \A c \in 1..Len(rows) :
            LET body == text[Nth(DatePositions(text), c)].body
                url  == text[Nth(LinkPositions(text), c)].url
                out  == {r \in 1..Len(df) : df[r].idx = c - 1}
            IN  IF to_datetime(body) = NaT
                THEN out = {}
                ELSE /\ Cardinality(out) = 1
                     /\ \A r \in out :
                           /\ df[r].ts_utc = to_datetime(body)
                           /\ df[r].url = url
                           /\ df[r].video_id = extract_video_id(url)

\* C6's case: the first candidate's date text fails to parse and the second
\* candidate, with another URL, is emitted.
C6_Witness ==
    /\ pc = "parse_done"
    /\ Len(rows) = 2
    /\ to_datetime(rows[1].ts_utc) = NaT
    /\ rows[1].url # rows[2].url
    /\ Len(df) = 1
    /\ df[1].idx = 1
    /\ df[1].url = rows[2].url

-----------------------------------------------------------------------------
(* Frames of parsed events, as parse_date_link_txt returns them.           *)

\* the URL of the k-th row of a frame whose URLs the computation does not read
UrlList ==
    << Url("https", "u", "video", 111), Url("https", "u", "video", 222),
       Url("http", "v", "video", 111), Url("https", "u", "photo", 5) >>

UrlFor(k) == UrlList[((k - 1) % Len(UrlList)) + 1]

EventRow(k, ts, url) ==
    [idx |-> k - 1, ts_utc |-> ts, url |-> url, video_id |-> extract_video_id(url)]

\* the frames of 0..n events at the instants T
TimedFrames(T, n) ==
    {[k \in 1..Len(tss) |-> EventRow(k, tss[k], UrlFor(k))] : tss \in SeqUpTo(T, n)}

\* the frames of 0..n events at the URLs U, one event a minute
LinkedFrames(U, n) ==
    {[k \in 1..Len(us) |-> EventRow(k, k * SecondsPerMinute, us[k])] : us \in SeqUpTo(U, n)}

\* the index labels of a frame
Labels(f) == {f[k].idx : k \in 1..Len(f)}

\* the row of frame f labelled x
RowAt(f, x) == f[CHOOSE k \in 1..Len(f) : f[k].idx = x]

-----------------------------------------------------------------------------
(* apply_date(df, start_date, end_date).                                   *)

\* ts.dt.date: the UTC calendar day of an instant
dt_date(ts) == ts \div SecondsPerDay

\* date_mask comparing the instant with midnight of the two days
date_mask_midnight(ts, s, e) == ts >= s * SecondsPerDay /\ ts <= e * SecondsPerDay

\* (df["ts_utc"].dt.date >= start_date) & (df["ts_utc"].dt.date <= end_date)
date_mask(ts, s, e) == dt_date(ts) >= s /\ dt_date(ts) <= e

apply_date(f, s, e) ==
    IF f = <<>> \/ s = None \/ e = None
    THEN f
    ELSE SelectSeqIdx(f, [k \in 1..Len(f) |-> date_mask(f[k].ts_utc, s, e)], 1)

\* the first and the last second of each day
DateInstants ==
    {d * SecondsPerDay + s : d \in 0..MaxDay, s \in {0, SecondsPerDay - 1}}

\* what st.date_input can hand over: a day, or None
DateInputs == (0..MaxDay) \cup {None}

InitDate ==
    /\ pc = "date_call"
    /\ df \in TimedFrames(DateInstants, MaxEvents)
    /\ outcome = "ok"
    /\ IdleParse /\ IdleDate /\ IdleFrames /\ IdleSess /\ IdleWrapped
    /\ IdleCards /\ IdlePool

\* if df.empty or start_date is None or end_date is None: return df
ApplyDateUnfiltered ==
    /\ pc = "date_call"
    /\ \E s \in DateInputs, e \in DateInputs :
          /\ df = <<>> \/ s = None \/ e = None
          /\ start_date' = s
          /\ end_date' = e
          /\ filtered' = apply_date(df, s, e)
    /\ pc' = "date_done"
    /\ UNCHANGED <<parseVars, df, outcome, frameVars, sessVars, conversion,
                   cardVars, poolVars>>

\* mask = ...; return df.loc[mask].copy()
ApplyDateFiltered ==
    /\ pc = "date_call"
    /\ \E s \in DateInputs, e \in DateInputs :
          /\ ~(df = <<>> \/ s = None \/ e = None)
          /\ start_date' = s
          /\ end_date' = e
          /\ filtered' = apply_date(df, s, e)
    /\ pc' = "date_done"
    /\ UNCHANGED <<parseVars, df, outcome, frameVars, sessVars, conversion,
                   cardVars, poolVars>>

NextDate ==
    \/ ApplyDateUnfiltered
    \/ ApplyDateFiltered

SpecDate == InitDate /\ [][NextDate]_vars

\* the instant lies between the first second of day s and the last second of
\* day e
WithinDays(ts, s, e) == s * SecondsPerDay <= ts /\ ts < (e + 1) * SecondsPerDay

\* C4: with both bounds present apply_date returns exactly the events whose
\* UTC calendar day d has start_date <= d <= end_date, each once and in the
\* frame's order: an event at 23:59:59 of end_date is kept, an event of the
\* next day is not.
C4_DateInclusive ==
    (pc = "date_done" /\ start_date # None /\ end_date # None) =>
        /\ Labels(filtered) =
              {x \in Labels(df) : WithinDays(RowAt(df, x).ts_utc, start_date, end_date)}
        /\ Len(filtered) = Cardinality(Labels(filtered))
        /\ \A k \in 1..Len(filtered) : filtered[k] = RowAt(df, filtered[k].idx)
        /\ \A k \in 1..(Len(filtered) - 1) : filtered[k].idx < filtered[k + 1].idx
        /\ \A k \in 1..Len(df) :
              /\ df[k].ts_utc = end_date * SecondsPerDay + (SecondsPerDay - 1)
                 /\ start_date <= end_date
                 => df[k].idx \in Labels(filtered)
              /\ df[k].ts_utc \div SecondsPerDay = end_date + 1
                 => df[k].idx \notin Labels(filtered)

\* C4's case: an event at 23:59:59 of end_date was kept and an event of the
\* day after end_date was dropped.
C4_Witness ==
    /\ pc = "date_done"
    /\ start_date # None /\ end_date # None
    /\ \E k \in 1..Len(filtered) :
          filtered[k].ts_utc = end_date * SecondsPerDay + (SecondsPerDay - 1)
    /\ \E k \in 1..Len(df) :
          /\ df[k].ts_utc \div SecondsPerDay = end_date + 1
          /\ df[k].idx \notin Labels(filtered)

-----------------------------------------------------------------------------
(* add_sessions(watch, gap_minutes) and the rollup session_stats.          *)

\* the orders sort_values("ts_utc") may leave the rows in: ascending by
\* ts_utc, rows of equal ts_utc in any order (the sort is not a stable one)
SortedOrders(f) ==
    {p \in [1..Len(f) -> 1..Len(f)] :
        /\ \A a, b \in 1..Len(f) : a # b => p[a] # p[b]
        /\ \A a \in 1..(Len(f) - 1) : f[p[a]].ts_utc <= f[p[a + 1]].ts_utc}

\* w["gap"] = w["ts_utc"].diff(): NaT for the first row
Diff(ts, k) == IF k = 1 THEN NaT ELSE ts[k] - ts[k - 1]

\* NewSession with >= for >
NewSessionAtThreshold(gap, minutes) == gap = NaT \/ gap >= minutes * SecondsPerMinute

\* (w["gap"].isna()) | (w["gap"] > pd.Timedelta(minutes=gap_minutes))
NewSession(gap, minutes) == gap = NaT \/ gap > minutes * SecondsPerMinute

RECURSIVE Cumsum(_, _)
\* w["new_session"].cumsum() at row k
Cumsum(flags, k) ==
    IF k = 0 THEN 0 ELSE Cumsum(flags, k - 1) + (IF flags[k] THEN 1 ELSE 0)

\* the frame add_sessions builds from the rows of f taken in the order p
SessionFrame(f, p, minutes) ==
    LET n     == Len(f)
        ts    == [k \in 1..n |-> f[p[k]].ts_utc]
        gap   == [k \in 1..n |-> Diff(ts, k)]
        flags == [k \in 1..n |-> NewSession(gap[k], minutes)]
    IN  [k \in 1..n |->
            [idx |-> f[p[k]].idx, ts_utc |-> f[p[k]].ts_utc, url |-> f[p[k]].url,
             video_id |-> f[p[k]].video_id, gap |-> gap[k],
             new_session |-> flags[k], session_id |-> Cumsum(flags, k)]]

\* the rows of w in group g of groupby("session_id")
Group(w, g) == {k \in 1..Len(w) : w[k].session_id = g}

\* AggSize counting the distinct timestamps ("nunique" for "size")
AggNunique(w, G) == Cardinality({w[k].ts_utc : k \in G})

\* ("ts_utc", "min"), ("ts_utc", "max"), ("ts_utc", "size") over a group
AggMin(w, G) == CHOOSE t \in {w[k].ts_utc : k \in G} : \A k \in G : t <= w[k].ts_utc
AggMax(w, G) == CHOOSE t \in {w[k].ts_utc : k \in G} : \A k \in G : t >= w[k].ts_utc
AggSize(w, G) == Cardinality(G)

\* groupby("session_id").agg(...).reset_index(), then duration_min: one row
\* per session_id, ascending; duration_min is seconds over 60.0
SessionStats(w) ==
    LET ids == {w[k].session_id : k \in 1..Len(w)}
    IN  [j \in 1..Cardinality(ids) |->
            LET g == CHOOSE x \in ids : Cardinality({y \in ids : y <= x}) = j
                G == Group(w, g)
            IN  [session_id |-> g,
                 session_start |-> AggMin(w, G),
                 session_end |-> AggMax(w, G),
                 events |-> AggSize(w, G),
                 duration_min |-> <<AggMax(w, G) - AggMin(w, G), SecondsPerMinute>>]]

\* instants 0, 29, 30, 60 and 61 minutes after t0 = 0, and 30 min 1 s
SessionInstants ==
    { 0, 29 * SecondsPerMinute, 30 * SecondsPerMinute, 30 * SecondsPerMinute + 1,
      60 * SecondsPerMinute, 61 * SecondsPerMinute }

\* the gap thresholds add_sessions is called with (the page passes 30)
GapMinutes == {-1, 0, 1, DefaultGap}

InitSess ==
    /\ pc = "sess_call"
    /\ watch_f \in TimedFrames(SessionInstants, MaxEvents)
    /\ likes_f = <<>>
    /\ df = <<>>
    /\ outcome = "ok"
    /\ IdleParse /\ IdleDate /\ IdleSess /\ IdleWrapped /\ IdleCards /\ IdlePool

\* if watch.empty: return watch
AddSessionsEmpty ==
    /\ pc = "sess_call"
    /\ watch_f = <<>>
    /\ \E g \in GapMinutes : gap_minutes' = g
    /\ w_s' = watch_f
    /\ pc' = "sess_rollup"
    /\ UNCHANGED <<parseVars, df, dateVars, frameVars, session_stats, outcome,
                   conversion, cardVars, poolVars>>

\* w = watch.sort_values("ts_utc").copy(); gap; new_session; session_id
AddSessions ==
    /\ pc = "sess_call"
    /\ watch_f # <<>>
    /\ \E g \in GapMinutes, p \in SortedOrders(watch_f) :
          /\ gap_minutes' = g
          /\ w_s' = SessionFrame(watch_f, p, g)
    /\ pc' = "sess_rollup"
    /\ UNCHANGED <<parseVars, df, dateVars, frameVars, session_stats, outcome,
                   conversion, cardVars, poolVars>>

\* if not w_s.empty: session_stats = w_s.groupby("session_id").agg(...)
RollupSessions ==
    /\ pc = "sess_rollup"
    /\ w_s # <<>>
    /\ session_stats' = SessionStats(w_s)
    /\ pc' = "sess_done"
    /\ UNCHANGED <<parseVars, df, dateVars, frameVars, gap_minutes, w_s, outcome,
                   conversion, cardVars, poolVars>>

\* else: st.info("No sessions found in this date range.")
RollupNothing ==
    /\ pc = "sess_rollup"
    /\ w_s = <<>>
    /\ pc' = "sess_done"
    /\ UNCHANGED <<parseVars, df, dateVars, frameVars, sessVars, outcome,
                   conversion, cardVars, poolVars>>

NextSess ==
    \/ AddSessionsEmpty
    \/ AddSessions
    \/ RollupSessions
    \/ RollupNothing

SpecSess == InitSess /\ [][NextSess]_vars

RECURSIVE SumEvents(_, _)
\* the events column of the first k rows of a rollup, summed
SumEvents(stats, k) == IF k = 0 THEN 0 ELSE SumEvents(stats, k - 1) + stats[k].events

\* add_sessions has returned for a non-empty frame
Sessionized == pc \in {"sess_rollup", "sess_done"} /\ watch_f # <<>>

\* C2: for every non-empty frame and every gap threshold the sessionizer
\* partitions the input: each input event is in the result once, unchanged,
\* under one session_id; each session_id is one row of the rollup, whose
\* events count the events given that id; the counts sum to the input's size.
C2_Partition ==
    (pc = "sess_done" /\ watch_f # <<>>) =>
        /\ Len(w_s) = Len(watch_f)
        /\ \A x \in Labels(watch_f) :
              /\ Cardinality({k \in 1..Len(w_s) : w_s[k].idx = x}) = 1
              /\ RowAt(w_s, x).ts_utc = RowAt(watch_f, x).ts_utc
              /\ RowAt(w_s, x).url = RowAt(watch_f, x).url
              /\ Cardinality({j \in 1..Len(session_stats) :
                     session_stats[j].session_id = RowAt(w_s, x).session_id}) = 1
        /\ \A j \in 1..Len(session_stats) :
              session_stats[j].events =
                  Cardinality({x \in Labels(watch_f) :
                      RowAt(w_s, x).session_id = session_stats[j].session_id})
        /\ SumEvents(session_stats, Len(session_stats)) = Len(watch_f)

\* C2's case: three events, two of them at the same instant, rolled up into
\* two sessions.
C2_Witness ==
    /\ pc = "sess_done"
    /\ Len(watch_f) = 3
    /\ watch_f[1].ts_utc = watch_f[3].ts_utc
    /\ Len(session_stats) = 2

\* C3: the result is in ascending timestamp order, its first event starts a
\* new session, and a later event starts a new session exactly when its gap
\* to the event before it is strictly greater than the threshold; events at
\* t0, t0 + 29 min and t0 + 61 min under a 30-minute threshold make the two
\* sessions {t0, t0 + 29 min} and {t0 + 61 min}.
C3_GapBoundary ==
    Sessionized =>
        /\ \A k \in 2..Len(w_s) : w_s[k - 1].ts_utc <= w_s[k].ts_utc
        /\ w_s[1].new_session
        /\ \A k \in 2..Len(w_s) :
              LET over == w_s[k].ts_utc - w_s[k - 1].ts_utc > gap_minutes * 60
              IN  /\ w_s[k].new_session <=> over
                  /\ (w_s[k].session_id # w_s[k - 1].session_id) <=> over
        /\ ( /\ gap_minutes = 30
             /\ Len(w_s) = 3
             /\ {watch_f[k].ts_utc : k \in 1..3} = {0, 29 * 60, 61 * 60} )
           => /\ w_s[1].session_id = w_s[2].session_id
              /\ w_s[2].session_id # w_s[3].session_id
              /\ w_s[2].ts_utc = 29 * 60

\* C3's case: under a 30-minute threshold a gap of exactly 30 minutes stays
\* in the session and the next gap, a longer one, starts session 2.
C3_Witness ==
    /\ Sessionized
    /\ gap_minutes = 30
    /\ Len(w_s) = 3
    /\ w_s[2].ts_utc - w_s[1].ts_utc = 30 * 60
    /\ w_s[3].ts_utc - w_s[2].ts_utc > 30 * 60
    /\ w_s[1].session_id = w_s[2].session_id
    /\ w_s[3].session_id = w_s[2].session_id + 1

\* session ids count the boundaries from 1 on, and the rollup's sessions,
\* taken by session_id, follow one another in time without touching
SessionsInOrder ==
    /\ w_s[1].session_id = 1
    /\ \A k \in 2..Len(w_s) :
          w_s[k].session_id =
              w_s[k - 1].session_id + (IF w_s[k].new_session THEN 1 ELSE 0)
    /\ \A j \in 1..Len(session_stats) : session_stats[j].session_id = j
    /\ \A j \in 1..(Len(session_stats) - 1) :
          session_stats[j].session_end < session_stats[j + 1].session_start
    /\ \A k \in 2..Len(w_s) :
          w_s[k].new_session => w_s[k - 1].ts_utc < w_s[k].ts_utc

\* C8: the session ids add_sessions gives start at 1 and grow by one at each
\* new-session boundary in chronological order, and the sessions, taken by
\* session_id, are ordered by start and do not overlap: each session ends
\* before the next one starts.
C8_SessionsOrdered ==
    (pc = "sess_done" /\ watch_f # <<>>) => SessionsInOrder

\* C8 for the gap thresholds the sessionizer's contract names, the positive
\* ones (and for a threshold of 0): there the sessions are in order.
C8_NonNegativeGap ==
    (pc = "sess_done" /\ watch_f # <<>> /\ gap_minutes >= 0) => SessionsInOrder

\* C9: add_sessions called on a non-empty frame with gap_minutes <= 0 ends in
\* an error and returns no session assignment.
C9_RejectsNonPositiveGap ==
    (Sessionized /\ gap_minutes <= 0) => (outcome # "ok" /\ w_s = <<>>)

-----------------------------------------------------------------------------
(* render_wrapped(watch_f, likes_f): the watch-to-like conversion.  The    *)
(* other figures of the story (counts, peak day and hour, the vibe) are    *)
(* read by nothing below and are left out.                                 *)

\* set(f["video_id"].dropna()) if "video_id" in f.columns and not f.empty
\* else set(); only an empty frame lacks the column
video_ids(f) ==
    IF f # <<>> THEN {f[k].video_id : k \in 1..Len(f)} \ {None} ELSE {}

\* the float 0.0, and a / b as the pair <<a, b>>
Zero == <<0, 1>>

\* conversion_rate without the test for an empty watch set
conversion_rate_unguarded(watch_ids, like_ids) ==
    <<Cardinality(watch_ids \cap like_ids), Cardinality(watch_ids)>>

\* (len(watch_ids & like_ids) / len(watch_ids)) if watch_ids else 0.0
conversion_rate(watch_ids, like_ids) ==
    IF watch_ids # {}
    THEN <<Cardinality(watch_ids \cap like_ids), Cardinality(watch_ids)>>
    ELSE Zero

InitWrapped ==
    /\ pc = "wrapped_call"
    /\ watch_f \in LinkedFrames(HttpUrls, MaxIdRows)
    /\ likes_f \in LinkedFrames(HttpUrls, MaxIdRows)
    /\ df = <<>>
    /\ outcome = "ok"
    /\ conversion = Zero
    /\ IdleParse /\ IdleDate /\ IdleSess /\ IdleCards /\ IdlePool

\* the division raises ZeroDivisionError on a zero divisor
RenderWrapped ==
    /\ pc = "wrapped_call"
    /\ LET rate == conversion_rate(video_ids(watch_f), video_ids(likes_f))
       IN  /\ outcome' = IF rate[2] = 0 THEN "ZeroDivisionError" ELSE "ok"
           /\ conversion' = IF rate[2] = 0 THEN conversion ELSE rate
    /\ pc' = "wrapped_done"
    /\ UNCHANGED <<parseVars, df, dateVars, frameVars, sessVars, cardVars, poolVars>>

NextWrapped == RenderWrapped

SpecWrapped == InitWrapped /\ [][NextWrapped]_vars

\* the ids the URLs of a frame carry after /video/
UrlVideoIds(f) == {f[k].url.num : k \in {j \in 1..Len(f) : f[j].url.kind = "video"}}

\* C5: the conversion rate is |ids(watch) & ids(likes)| / |ids(watch)| over
\* the video ids present; it is 0.0, and no division error, when no watch
\* event has an id, and 0.0 when both id sets are non-empty and disjoint.
C5_Conversion ==
    pc = "wrapped_done" =>
        LET W == UrlVideoIds(watch_f)
            L == UrlVideoIds(likes_f)
        IN  /\ outcome = "ok"
            /\ conversion[2] > 0
            /\ conversion[1] * Cardinality(W) = Cardinality(W \cap L) * conversion[2]
            /\ W = {} => conversion[1] = 0
            /\ (W # {} /\ L # {} /\ W \cap L = {}) => conversion[1] = 0

\* C5's case: watch events, none with a video id, against likes that have
\* ids: the rate is 0.0.
C5_Witness ==
    /\ pc = "wrapped_done"
    /\ Len(watch_f) = 2
    /\ UrlVideoIds(watch_f) = {}
    /\ UrlVideoIds(likes_f) # {}
    /\ conversion = Zero
    /\ outcome = "ok"

-----------------------------------------------------------------------------
(* render_cards_client_oembed(df, cards_per_row, n): the frame of cards.   *)

\* the orders sort_values("ts_utc", ascending=False) may leave the rows in
DescendingOrders(f) ==
    {p \in [1..Len(f) -> 1..Len(f)] :
        /\ \A a, b \in 1..Len(f) : a # b => p[a] # p[b]
        /\ \A a \in 1..(Len(f) - 1) : f[p[a]].ts_utc >= f[p[a + 1]].ts_utc}

\* a missing value in the url column (the parser never leaves one)
NoUrl == Url("", "", "", None)

\* .dropna(subset=["url"]): the rows that have a URL
dropna_url(f) == SelectSeqIdx(f, [k \in 1..Len(f) |-> f[k].url # NoUrl], 1)

\* drop_duplicates keeping the last row of each URL (keep="last")
drop_duplicates_last(f) ==
    SelectSeqIdx(f, [k \in 1..Len(f) |-> \A j \in (k + 1)..Len(f) : f[j].url # f[k].url], 1)

\* .drop_duplicates(subset=["url"]): the first row of each URL
drop_duplicates(f) ==
    SelectSeqIdx(f, [k \in 1..Len(f) |-> \A j \in 1..(k - 1) : f[j].url # f[k].url], 1)

\* .head(n)
head(f, n) == SubSeq(f, 1, Min(n, Len(f)))

\* the rows of f taken in the order p
Reorder(f, p) == [k \in 1..Len(f) |-> f[p[k]]]

RecentCards(f, p, n) == head(drop_duplicates(dropna_url(Reorder(f, p))), n)

\* instants one, two and three minutes after 0
CardInstants == {1 * SecondsPerMinute, 2 * SecondsPerMinute, 3 * SecondsPerMinute}

CardUrls == {Url("https", "u", "video", 111), Url("https", "u", "video", 222),
             Url("https", "u", "photo", 5)}

CardFrames ==
    {[k \in 1..Len(es) |-> EventRow(k, es[k][1], es[k][2])] :
        es \in SeqUpTo(CardInstants \X CardUrls, MaxIdRows)}

InitCards ==
    /\ pc = "cards_call"
    /\ df \in CardFrames
    /\ outcome = "ok"
    /\ IdleCards
    /\ IdleParse /\ IdleDate /\ IdleFrames /\ IdleSess /\ IdleWrapped /\ IdlePool

\* if df is None or df.empty: st.info(...); return
RenderCardsEmpty ==
    /\ pc = "cards_call"
    /\ df = <<>>
    /\ pc' = "cards_done"
    /\ UNCHANGED <<parseVars, df, dateVars, frameVars, sessVars, outcome,
                   conversion, cardVars, poolVars>>

\* recent = df.sort_values(...).dropna(...).drop_duplicates(...).head(n)
RenderCards ==
    /\ pc = "cards_call"
    /\ df # <<>>
    /\ \E n \in {2, DefaultCards}, p \in DescendingOrders(df) :
          /\ card_n' = n
          /\ recent' = RecentCards(df, p, n)
    /\ pc' = "cards_done"
    /\ UNCHANGED <<parseVars, df, dateVars, frameVars, sessVars, outcome,
                   conversion, poolVars>>

NextCards ==
    \/ RenderCardsEmpty
    \/ RenderCards

SpecCards == InitCards /\ [][NextCards]_vars

\* C7: the card view holds at most one event of each URL, and the event it
\* holds of a URL is one of the latest of that URL: of two events with one
\* URL and different timestamps the earlier is never the one kept.
C7_Dedup ==
    (pc = "cards_done" /\ df # <<>>) =>
        /\ \A a, b \in 1..Len(recent) : a # b => recent[a].url # recent[b].url
        /\ \A a \in 1..Len(recent) :
              /\ recent[a].idx \in Labels(df)
              /\ RowAt(df, recent[a].idx) = recent[a]
              /\ \A k \in 1..Len(df) :
                    df[k].url = recent[a].url => df[k].ts_utc <= recent[a].ts_utc
        /\ \A a \in 1..(Len(recent) - 1) : recent[a].ts_utc >= recent[a + 1].ts_utc
        /\ Len(recent) = Min(card_n, Cardinality({df[k].url : k \in 1..Len(df)}))

\* C7's case: the frame holds one URL at two different instants, the earlier
\* event first, and the view holds that URL once, at the later instant.
C7_Witness ==
    /\ pc = "cards_done"
    /\ Len(df) = 3
    /\ df[1].url = df[2].url
    /\ df[1].ts_utc < df[2].ts_utc
    /\ df[3].url # df[1].url
    /\ Len(recent) = 2
    /\ \E a \in 1..2 : recent[a].idx = df[2].idx
    /\ \A a \in 1..2 : recent[a].idx # df[1].idx

-----------------------------------------------------------------------------
(* runLimited(tasks, 4), the script of the page of cards.  One task per    *)
(* card: it fetches the card's oEmbed record and, when that succeeds,      *)
(* fills the card in.  JavaScript runs one piece of code at a time: a      *)
(* worker runs from one await to the next without interruption.            *)

\* runLimited(tasks, 4)
Limit == 4

Workers == 1..Limit

\* a worker: where it is, and the task it awaits (0: none)
Worker(at, idx) == [at |-> at, idx |-> idx]

\* while (i < tasks.length)
MoreTasks(next, ts) == next < Len(ts)

\* AfterAwait without the try and catch: a rejected task rejects the worker
AfterAwaitUncaught(ok) == IF ok THEN "resume" ELSE "rejected"

\* try { await tasks[idx](); } catch(e) {}: where the worker goes on when
\* the task it awaits has settled, fulfilled (ok) or rejected
AfterAwait(ok) == "resume"

\* the number of tasks started and not settled
InFlight(ts) == Cardinality({k \in 1..Len(ts) : ts[k] = "fetching"})

InitPool ==
    /\ pc = "pool_run"
    /\ \E c \in 1..MaxCards :
          /\ tasks = [k \in 1..c |-> "pending"]
          /\ started = [k \in 1..c |-> 0]
    /\ i = 0
    /\ workers = [w \in Workers |-> Worker("new", 0)]
    /\ df = <<>>
    /\ outcome = "ok"
    /\ IdleParse /\ IdleDate /\ IdleFrames /\ IdleSess /\ IdleWrapped /\ IdleCards

\* const idx = i++; tasks[idx](): the task runs up to its fetch
TakeTask(w) ==
    /\ MoreTasks(i, tasks)
    /\ i' = i + 1
    /\ tasks' = [tasks EXCEPT ![i + 1] = "fetching"]
    /\ started' = [started EXCEPT ![i + 1] = @ + 1]
    /\ workers' = [workers EXCEPT ![w] = Worker("await", i + 1)]

\* the loop's condition fails: the worker's promise is fulfilled
LeaveLoop(w) ==
    /\ ~MoreTasks(i, tasks)
    /\ workers' = [workers EXCEPT ![w] = Worker("done", 0)]
    /\ UNCHANGED <<tasks, started, i>>

\* new Array(limit).fill(0).map(async () => {...}): the workers are called
\* one after the other, and each runs at once up to its first await
WorkerStart(w) ==
    /\ pc = "pool_run"
    /\ workers[w].at = "new"
    /\ \A v \in 1..(w - 1) : workers[v].at # "new"
    /\ (TakeTask(w) \/ LeaveLoop(w))
    /\ UNCHANGED <<pc, parseVars, df, dateVars, frameVars, sessVars, outcome,
                   conversion, cardVars>>

\* runLimited's own code has run to its await: every worker was started
AllStarted == \A w \in Workers : workers[w].at # "new"

\* the lookup of the task a worker awaits succeeds: the card is filled in
TaskFulfilled(w) ==
    /\ pc = "pool_run"
    /\ AllStarted
    /\ workers[w].at = "await"
    /\ tasks' = [tasks EXCEPT ![workers[w].idx] = "filled"]
    /\ workers' = [workers EXCEPT ![w].at = AfterAwait(TRUE)]
    /\ UNCHANGED <<pc, started, i, parseVars, df, dateVars, frameVars, sessVars,
                   outcome, conversion, cardVars>>

\* the lookup fails (fetch rejects, the status is not ok, the body is not
\* JSON): the task throws and the card stays as it was
TaskRejected(w) ==
    /\ pc = "pool_run"
    /\ AllStarted
    /\ workers[w].at = "await"
    /\ tasks' = [tasks EXCEPT ![workers[w].idx] = "failed"]
    /\ workers' = [workers EXCEPT ![w].at = AfterAwait(FALSE)]
    /\ UNCHANGED <<pc, started, i, parseVars, df, dateVars, frameVars, sessVars,
                   outcome, conversion, cardVars>>

\* the worker goes on after its await: the next turn of the loop
WorkerResume(w) ==
    /\ pc = "pool_run"
    /\ AllStarted
    /\ workers[w].at = "resume"
    /\ (TakeTask(w) \/ LeaveLoop(w))
    /\ UNCHANGED <<pc, parseVars, df, dateVars, frameVars, sessVars, outcome,
                   conversion, cardVars>>

\* await Promise.all(workers) returns
PoolFinish ==
    /\ pc = "pool_run"
    /\ \A w \in Workers : workers[w].at = "done"
    /\ pc' = "pool_done"
    /\ UNCHANGED <<parseVars, df, dateVars, frameVars, sessVars, outcome,
                   conversion, cardVars, poolVars>>

StartSome == \E w \in Workers : WorkerStart(w)
ResumeSome == \E w \in Workers : WorkerResume(w)

NextPool ==
    \/ StartSome
    \/ \E w \in Workers : TaskFulfilled(w)
    \/ \E w \in Workers : TaskRejected(w)
    \/ ResumeSome
    \/ PoolFinish

\* the script runs on once started, and a worker whose await has settled is
\* run again; nothing makes a lookup settle
SpecPool ==
    /\ InitPool
    /\ [][NextPool]_vars
    /\ WF_vars(StartSome)
    /\ WF_vars(ResumeSome)
    /\ WF_vars(PoolFinish)

\* every task has been attempted: started, and settled one way or the other
AllAttempted == \A k \in 1..Len(tasks) : tasks[k] \in {"filled", "failed"}

AllFinished == \A w \in Workers : workers[w].at = "done"

\* a worker that has been started and neither awaits a task nor is about to
\* go on has stopped
Stopped(w) == workers[w].at \notin {"new", "await", "resume"}

PoolSafe ==
    /\ \A k \in 1..Len(tasks) :
          /\ started[k] <= 1
          /\ started[k] = 1 <=> tasks[k] # "pending"
          /\ started[k] = 1 <=> k <= i
    /\ InFlight(tasks) <= 4
    /\ \A w \in Workers : Stopped(w) => i = Len(tasks)
    /\ AllFinished => \A k \in 1..Len(tasks) : started[k] = 1 /\ tasks[k] # "fetching"

\* a step in which a lookup fails changes no other task and no other worker,
\* and leaves the worker that awaited it to go on
FailureIsolated ==
    \A k \in 1..Len(tasks) :
        (tasks[k] = "fetching" /\ tasks'[k] = "failed") =>
            /\ \A j \in 1..Len(tasks) : j # k => tasks'[j] = tasks[j]
            /\ started' = started
            /\ \A w \in Workers :
                  IF workers[w].idx = k /\ workers[w].at = "await"
                  THEN ~Stopped(w)'
                  ELSE workers'[w] = workers[w]

\* C10: under every interleaving and every combination of failing lookups
\* each task is started at most once, and exactly once by the time the
\* workers have finished; at most 4 lookups are in flight; a failed lookup
\* stops no worker and touches no other task; and once every task has been
\* attempted all workers finish.
C10_Pool ==
    /\ []PoolSafe
    /\ [][FailureIsolated]_vars
    /\ (AllAttempted ~> AllFinished)

\* C10's case: more cards than workers, a failed lookup among them, each task
\* started once and the pool finished.
C10_Witness ==
    /\ pc = "pool_done"
    /\ Len(tasks) = 5
    /\ tasks[2] = "failed"
    /\ tasks[5] = "filled"
    /\ \A k \in 1..5 : started[k] = 1

=============================================================================
